---- MODULE Spec2Model ----
(***************************************************************************)
(* udev_add.c: device-node materialization (udev_add_device and the        *)
(* functions it calls), with the klibc getpwnam()/getgrnam() replacement.   *)
(*                                                                          *)
(* C strings are sequences of one-character strings.  Every string of the  *)
(* model is far shorter than NAME_SIZE, so the truncating copies           *)
(* (snprintf, strfieldcpy, strfieldcat) act as plain copies here.          *)
(* A mode_t is a record [fmt, perm]: the S_IFMT type bits and the set of   *)
(* permission bits.  getpwnam and getgrnam are those of klibc_fixups.c     *)
(* (the __KLIBC__ build).                                                   *)
(***************************************************************************)
EXTENDS Integers, Sequences, FiniteSets, TLC

(***************************************************************************)
(* Bounds of the model.                                                     *)
(***************************************************************************)
\* largest value of udev->partitions the naming rules hand out
MaxPart == 2
\* number of udev_add_device calls for the same kernel event (duplicate events)
MaxCalls == 2
\* longest name / symlink token of the relative-link computation
MaxLen == 4

(***************************************************************************)
(* C string helpers.                                                        *)
(***************************************************************************)
Digits == {"0", "1", "2", "3", "4", "5", "6", "7", "8", "9"}

DigitVal(c) ==
    CASE c = "0" -> 0 [] c = "1" -> 1 [] c = "2" -> 2 [] c = "3" -> 3
      [] c = "4" -> 4 [] c = "5" -> 5 [] c = "6" -> 6 [] c = "7" -> 7
      [] c = "8" -> 8 [] c = "9" -> 9

\* s[from..] (the C pointer s + from - 1)
Tail_(s, from) == SubSeq(s, from, Len(s))

\* strrchr: index of the last occurrence of c in s, 0 when there is none
strrchr(s, c) ==
    LET at == {j \in 1..Len(s) : s[j] = c}
    IN  IF at = {} THEN 0 ELSE CHOOSE j \in at : \A m \in at : m <= j

\* number of leading decimal digits of s
DigitRun(s) ==
    LET ok == {n \in 0..Len(s) : \A j \in 1..n : s[j] \in Digits}
    IN  CHOOSE n \in ok : \A m \in ok : m <= n

RECURSIVE DecValue(_)
DecValue(s) ==
    IF s = << >> THEN 0
    ELSE DecValue(SubSeq(s, 1, Len(s) - 1)) * 10 + DigitVal(s[Len(s)])

\* strtoul(s, &endptr, 10) for the digit strings of the model (no leading
\* white space or sign occurs in them): the value and the index of endptr
strtoul(s) ==
    [val |-> DecValue(SubSeq(s, 1, DigitRun(s))), end |-> DigitRun(s) + 1]

\* strintcat appends the decimal text of a small partition index
Decimal(n) ==
    CASE n = 0 -> <<"0">> [] n = 1 -> <<"1">> [] n = 2 -> <<"2">> [] n = 3 -> <<"3">>
      [] n = 4 -> <<"4">> [] n = 5 -> <<"5">> [] n = 6 -> <<"6">> [] n = 7 -> <<"7">>
      [] n = 8 -> <<"8">> [] n = 9 -> <<"9">>

\* foreach_strpart(str, " ", pos, len): the non-empty parts between blanks
RECURSIVE strparts(_)
strparts(s) ==
    IF s = << >> THEN << >>
    ELSE IF s[1] = " " THEN strparts(Tail(s))
    ELSE LET sp  == {j \in 1..Len(s) : s[j] = " "}
             end == IF sp = {} THEN Len(s) + 1
                    ELSE CHOOSE j \in sp : \A m \in sp : j <= m
         IN  <<SubSeq(s, 1, end - 1)>> \o strparts(Tail_(s, end))

(***************************************************************************)
(* get_major_minor: sscanf(attr->value, "%u:%u", &major, &minor).           *)
(* sscanf stores each converted number as soon as it is converted and      *)
(* returns how many it stored (EOF, -1, when the text ends before the      *)
(* first).  The numbers of the model are far below 2^32, where %u wraps.   *)
(***************************************************************************)
sscanf_uu(text) ==
    LET n1    == DigitRun(text)
        rest  == Tail_(text, n1 + 1)
        colon == rest # << >> /\ rest[1] = ":"
        rest2 == Tail_(rest, 2)
        n2    == DigitRun(rest2)
        first == DecValue(SubSeq(text, 1, n1))
    IN  IF text = << >> THEN [count |-> -1, set1 |-> FALSE, v1 |-> 0, v2 |-> 0]
        ELSE IF n1 = 0 THEN [count |-> 0, set1 |-> FALSE, v1 |-> 0, v2 |-> 0]
        ELSE IF ~colon \/ n2 = 0
             THEN [count |-> 1, set1 |-> TRUE, v1 |-> first, v2 |-> 0]
        ELSE [count |-> 2, set1 |-> TRUE, v1 |-> first,
              v2 |-> DecValue(SubSeq(rest2, 1, n2))]

\* the descriptor after get_major_minor and its return value; attr is what
\* sysfs_get_classdev_attr(class_dev, "dev") finds: [null, value]
get_major_minor(attr, dev) ==
    IF attr.null THEN [ret |-> -1, udev |-> dev]
    ELSE LET r == sscanf_uu(attr.value)
             d1 == IF r.set1 THEN [dev EXCEPT !.major = r.v1] ELSE dev
         IN  IF r.count # 2 THEN [ret |-> -1, udev |-> d1]
             ELSE [ret |-> 0, udev |-> [d1 EXCEPT !.minor = r.v2]]

(***************************************************************************)
(* klibc_fixups.c: getpwnam / getgrnam over a passwd-style file, given as  *)
(* [open, lines] (open is FALSE when file_map cannot open it).              *)
(* uid_t and gid_t are unsigned 32-bit.  The value 0xFFFFFFFF is written   *)
(* -1 (its bit pattern read as signed); no other value of the model has    *)
(* the top bit set.                                                         *)
(***************************************************************************)
\* unsigned long id = -1
ID_NONE == -1

\* the fields strsep(&pos, ":") hands out, empty ones included
RECURSIVE strsep_fields(_)
strsep_fields(line) ==
    LET at == {j \in 1..Len(line) : line[j] = ":"}
    IN  IF at = {} THEN <<line>>
        ELSE LET c == CHOOSE j \in at : \A m \in at : j <= m
             IN  <<SubSeq(line, 1, c - 1)>> \o strsep_fields(Tail_(line, c + 1))

RECURSIVE scan_lines(_, _)
scan_lines(uname, lines) ==
    IF lines = << >> THEN ID_NONE
    ELSE LET f == strsep_fields(Head(lines))
         IN  IF Len(f) < 3 THEN scan_lines(uname, Tail(lines))
             ELSE IF f[1] = uname
                  THEN LET r == strtoul(f[3])
                       IN  IF r.end <= Len(f[3]) THEN ID_NONE ELSE r.val
             ELSE scan_lines(uname, Tail(lines))

get_id_by_name(uname, dbfile) ==
    IF ~dbfile.open THEN ID_NONE ELSE scan_lines(uname, dbfile.lines)

\* pw.pw_uid < 0, gr.gr_gid < 0: a comparison of an unsigned value with 0
unsigned_below_zero(v) == FALSE

PW_FILE == [open |-> TRUE, lines |-> << <<"r", ":", "x", ":", "0", ":", "0">> >>]
GR_FILE == [open |-> TRUE, lines |-> << <<"r", ":", "x", ":", "0">> >>]

getpwnam(name) ==
    LET pw_uid == get_id_by_name(name, PW_FILE)
    IN  IF unsigned_below_zero(pw_uid) THEN [null |-> TRUE, id |-> 0]
        ELSE [null |-> FALSE, id |-> pw_uid]

getgrnam(name) ==
    LET gr_gid == get_id_by_name(name, GR_FILE)
    IN  IF unsigned_below_zero(gr_gid) THEN [null |-> TRUE, id |-> 0]
        ELSE [null |-> FALSE, id |-> gr_gid]

\* create_node: udev->owner to uid (and udev->group to gid, with getgrnam)
owner_uid(owner) ==
    IF owner = << >> THEN 0
    ELSE LET r == strtoul(owner)
         IN  IF r.end > Len(owner) THEN r.val
             ELSE LET pw == getpwnam(owner)
                  IN  IF pw.null THEN 0 ELSE pw.id

group_gid(group) ==
    IF group = << >> THEN 0
    ELSE LET r == strtoul(group)
         IN  IF r.end > Len(group) THEN r.val
             ELSE LET gr == getgrnam(group)
                  IN  IF gr.null THEN 0 ELSE gr.id

(***************************************************************************)
(* create_node: the relative target of a symlink ("optimize relative       *)
(* link").                                                                  *)
(***************************************************************************)
\* C's name[j] with the terminating NUL read as ""
CharAt(s, j) == IF j <= Len(s) THEN s[j] ELSE ""

\* the first while loop: the length of the common prefix of name and linkname
common_len(name, linkname) ==
    LET ok == {n \in 0..Len(name) :
                 \A j \in 1..n : CharAt(name, j) = CharAt(linkname, j)}
    IN  CHOOSE n \in ok : \A m \in ok : m <= n

\* tail: the index after the last '/' of the common prefix (0-based, as in C)
link_tail(name, linkname) ==
    strrchr(SubSeq(name, 1, common_len(name, linkname)), "/")

RECURSIVE dotdots(_)
dotdots(n) == IF n = 0 THEN << >> ELSE <<".", ".", "/">> \o dotdots(n - 1)

\* the second while loop and the final strfieldcat
relative_link(name, linkname) ==
    LET i    == common_len(name, linkname)
        ups  == Cardinality({j \in (i + 1)..Len(linkname) : linkname[j] = "/"})
    IN  dotdots(ups) \o Tail_(name, link_tail(name, linkname) + 1)

(***************************************************************************)
(* The file system: a function from the paths that exist to their entries. *)
(* Paths are compared as texts; the names of the device model below have   *)
(* no empty, "." or ".." segment, so equal files have equal texts.         *)
(***************************************************************************)
Node(kind, major, minor, perm, uid, gid, ino) ==
    [kind |-> kind, major |-> major, minor |-> minor, perm |-> perm,
     uid |-> uid, gid |-> gid, ino |-> ino, target |-> << >>]

DirEntry == Node("dir", 0, 0, {"ur", "uw", "ux"}, 0, 0, 0)
RegEntry == Node("reg", 0, 0, {"ur"}, 0, 0, 0)
NoEntry  == Node("none", 0, 0, {}, 0, 0, 0)

Exists(f, path) == path \in DOMAIN f
EntryAt(f, path) == IF Exists(f, path) THEN f[path] ELSE NoEntry
Without(f, path) == [q \in DOMAIN f \ {path} |-> f[q]]

\* the directories above path, outermost included
DirsAbove(path) ==
    {SubSeq(path, 1, j - 1) : j \in {m \in 2..Len(path) : path[m] = "/"}}
ParentDir(path) == SubSeq(path, 1, strrchr(path, "/") - 1)
ParentOk(f, path) ==
    Exists(f, ParentDir(path)) /\ f[ParentDir(path)].kind = "dir"

\* the process umask, which mknod applies to the permission bits
Umask == {"gw", "ow"}

\* each system call: whether it succeeds (fail: the injected failure) and the
\* file system after it
sys_mknod(f, path, mode, major, minor, ino, fail) ==
    LET ok == ~fail /\ ~Exists(f, path) /\ ParentOk(f, path)
    IN  [ok |-> ok,
         fs |-> IF ok
                THEN (path :> Node(mode.fmt, major, minor, mode.perm \ Umask, 0, 0, ino)) @@ f
                ELSE f]

sys_unlink(f, path, fail) ==
    LET ok == ~fail /\ Exists(f, path) /\ f[path].kind # "dir"
    IN  [ok |-> ok, fs |-> IF ok THEN Without(f, path) ELSE f]

sys_chmod(f, path, mode, fail) ==
    LET ok == ~fail /\ Exists(f, path)
    IN  [ok |-> ok, fs |-> IF ok THEN [f EXCEPT ![path].perm = mode.perm] ELSE f]

\* an id of (uid_t)-1 or (gid_t)-1 leaves that id as it is
sys_chown(f, path, uid, gid, fail) ==
    LET ok == ~fail /\ Exists(f, path)
    IN  [ok |-> ok,
         fs |-> IF ok
                THEN [f EXCEPT ![path].uid = IF uid = -1 THEN @ ELSE uid,
                               ![path].gid = IF gid = -1 THEN @ ELSE gid]
                ELSE f]

sys_symlink(f, target, path, fail) ==
    LET ok == ~fail /\ ~Exists(f, path) /\ ParentOk(f, path)
    IN  [ok |-> ok,
         fs |-> IF ok
                THEN (path :> [Node("lnk", 0, 0, {}, 0, 0, 0) EXCEPT !.target = target]) @@ f
                ELSE f]

\* create_path: mkdir -p of the directories above path.  It stops at the
\* first mkdir that fails, and makes nothing when a non-directory is in the way
create_path(f, path, fail) ==
    LET missing == {d \in DirsAbove(path) : ~Exists(f, d)}
        blocked == \E d \in DirsAbove(path) : Exists(f, d) /\ f[d].kind # "dir"
        ok      == ~fail /\ ~blocked
    IN  [tried |-> missing # {} /\ ~blocked,
         ok    |-> ok,
         fs    |-> IF ok THEN [d \in missing |-> DirEntry] @@ f ELSE f]

(***************************************************************************)
(* The devices, rules and failures of the model.                            *)
(***************************************************************************)
udev_root == <<"/", "u">>

\* udev->type: block, char, network, and 'p' for every other type
Types == {"b", "c", "n", "p"}
NodeTypes == {"b", "c"}

KernelName == <<"a">>
KernelDevpath == <<"/", "c", "/", "a">>

\* the descriptor the event glue hands to udev_add_device
FreshDevice(type, test_run) ==
    [type |-> type, kernel_name |-> KernelName, name |-> << >>,
     devpath |-> KernelDevpath, devname |-> << >>, major |-> 0, minor |-> 0,
     mode |-> [fmt |-> "none", perm |-> {}], owner |-> << >>, group |-> << >>,
     symlink |-> << >>, partitions |-> 0, test_run |-> test_run]

\* the values of the "dev" attribute: missing, well formed, well formed with
\* text after it, and malformed in each place the parse can stop
DevAttrs ==
    {[null |-> TRUE, value |-> << >>]}
    \cup {[null |-> FALSE, value |-> v] :
            v \in {<<"8", ":", "0">>, <<"8", ":", "0", "\n">>, << >>, <<"x">>,
                   <<"8">>, <<"8", ":">>, <<"8", ":", "x">>, <<":", "0">>}}

\* what the naming rules decide for the device
Names == {<<"a">>, <<"d", "/", "a">>}
OwnerGroups == {<< << >>, << >> >>, << <<"5">>, << >> >>,
                << <<"u">>, <<"7">> >>}
Symlinks == {<< >>, <<"d", "/", "s", " ", "t">>}
RulePerm == {"ur", "uw", "gr", "gw"}
Rules ==
    {[name |-> n, mode |-> [fmt |-> "none", perm |-> RulePerm], owner |-> og[1],
      group |-> og[2], symlink |-> sl, partitions |-> np] :
        n \in Names, og \in OwnerGroups, sl \in Symlinks, np \in 0..MaxPart}

PlainRules ==
    [name |-> <<"a">>, mode |-> [fmt |-> "none", perm |-> RulePerm],
     owner |-> << >>, group |-> << >>, symlink |-> << >>, partitions |-> 0]

\* what may already be at the primary path: nothing, a device node with the
\* device number of the event or another one, a regular file, a directory
PreEntries ==
    {NoEntry, RegEntry, DirEntry}
    \cup {Node(k, 8, mi, {"ur"}, 5, 0, 1) : k \in {"blk", "chr"}, mi \in {0, 1}}

\* a call or system call that fails whenever it is made for the given item
\* (the primary node, the first partition, the first symlink)
NoFault == [op |-> "none", role |-> "none"]
FaultPlans ==
    {NoFault, [op |-> "namedev", role |-> "call"], [op |-> "db_add", role |-> "call"],
     [op |-> "socket", role |-> "net"], [op |-> "ioctl", role |-> "net"],
     [op |-> "mkdir", role |-> "primary"], [op |-> "mkdir", role |-> "sym1"],
     [op |-> "symlink", role |-> "sym1"]}
    \cup {[op |-> o, role |-> r] :
            o \in {"mknod", "chmod", "chown"}, r \in {"primary", "part1"}}

\* the failures that can show with the device, the mode and the rules at hand
Relevant(plan, type, test_run, r) ==
    CASE plan.op \in {"none", "namedev"} -> TRUE
      [] plan.op = "db_add" -> type \in NodeTypes
      [] plan.op \in {"socket", "ioctl"} ->
            type = "n" /\ ~test_run /\ r.name # KernelName
      [] plan.op = "mkdir" /\ plan.role = "primary" ->
            type \in NodeTypes /\ strrchr(r.name, "/") # 0
      [] plan.role = "sym1" ->
            type \in NodeTypes /\ ~test_run /\ r.symlink # << >>
      [] plan.role = "primary" -> type \in NodeTypes /\ ~test_run
      [] plan.role = "part1" -> type \in NodeTypes /\ ~test_run /\ r.partitions > 0

PartRole(i) == IF i = 1 THEN "part1" ELSE "partN"
SymRole(k) == IF k = 1 THEN "sym1" ELSE "symN"

Ev(op, path, ok) == [op |-> op, path |-> path, ok |-> ok]

VARIABLES
    fs,         \* the file system
    nextIno,    \* the inode number the next mknod hands out
    ifname,     \* the kernel's name of the network interface
    environ,    \* the DEVPATH of the process environment
    db,         \* the descriptors udev_db_add_device recorded
    class_dev,  \* the "dev" attribute of the sysfs class device
    rules,      \* what namedev_name_device decides for the device
    fault,      \* the failure the environment injects
    udev,       \* the device descriptor
    pc,         \* the position in udev_add_device and its callees
    cn,         \* the locals of create_node
    mn,         \* the arguments and locals of make_node
    retval,     \* udev_add_device's retval
    ret,        \* what the last udev_add_device call returned
    trace,      \* the calls and system calls of the running call, in order
    made,       \* the primary make_node of the running call, once it is over
    made_before,\* the primary make_node of the call before
    calls       \* the number of udev_add_device calls so far

vars == <<fs, nextIno, ifname, environ, db, class_dev, rules, fault, udev, pc,
          cn, mn, retval, ret, trace, made, made_before, calls>>

Faulty(op, role) == fault = [op |-> op, role |-> role]

NoCn == [filename |-> << >>, uid |-> 0, gid |-> 0, i |-> 0, tokens |-> << >>,
         k |-> 0, linkname |-> << >>, linktarget |-> << >>]
NoReq == [file |-> << >>, major |-> 0, minor |-> 0,
          mode |-> [fmt |-> "none", perm |-> {}], uid |-> 0, gid |-> 0]
NoMn == [req |-> NoReq, retval |-> 0, role |-> "none", failed |-> FALSE]
NoMade == [over |-> FALSE, clean |-> FALSE, req |-> NoReq, node |-> NoEntry]

PrimaryPath(r) == udev_root \o <<"/">> \o r.name

\* the file system an event finds: the root, the directories above the
\* primary path when something is there already, and that entry
InitFs(r, pre) ==
    IF pre = NoEntry THEN (udev_root :> DirEntry)
    ELSE (PrimaryPath(r) :> pre)
         @@ [d \in DirsAbove(PrimaryPath(r)) |-> DirEntry]

Init ==
    \E type \in Types, test_run \in BOOLEAN, attr \in DevAttrs, r \in Rules,
       pre \in PreEntries, plan \in FaultPlans :
        /\ type \notin NodeTypes => attr.null /\ pre = NoEntry
        \* a device that stops at the resolution meets no rules, no entry
        \* and no failure: one representative of each
        /\ type \in NodeTypes /\ get_major_minor(attr, FreshDevice(type, test_run)).ret # 0
               => r = PlainRules /\ pre = NoEntry /\ plan = NoFault
        /\ Relevant(plan, type, test_run, r)
        /\ fs = InitFs(r, pre)
        /\ nextIno = 2
        /\ ifname = KernelName
        /\ environ = KernelDevpath
        /\ db = << >>
        /\ class_dev = attr
        /\ rules = r
        /\ fault = plan
        /\ udev = FreshDevice(type, test_run)
        /\ pc = "start"
        /\ cn = NoCn
        /\ mn = NoMn
        /\ retval = 0
        /\ ret = 0
        /\ trace = << >>
        /\ made = NoMade
        /\ made_before = NoMade
        /\ calls = 1

(***************************************************************************)
(* udev_add_device.                                                         *)
(***************************************************************************)
\* Resolve with the miss sent to the exit label with the error code, where
\* the code has "return 0"
Resolve_miss_to_exit ==
    /\ pc = "start"
    /\ IF udev.type \in NodeTypes
       THEN LET r == get_major_minor(class_dev, udev)
            IN  /\ udev' = r.udev
                /\ retval' = r.ret
                /\ pc' = IF r.ret # 0 THEN "exit" ELSE "name"
       ELSE /\ pc' = "name"
            /\ UNCHANGED <<udev, retval>>
    /\ UNCHANGED <<fs, nextIno, ifname, environ, db, class_dev, rules, fault,
                   cn, mn, ret, trace, made, made_before, calls>>

\* lines 286-292: resolve major/minor of a block or char device; a miss
\* returns 0 at once
Resolve ==
    /\ pc = "start"
    /\ IF udev.type \in NodeTypes
       THEN LET r == get_major_minor(class_dev, udev)
            IN  /\ udev' = r.udev
                /\ retval' = r.ret
                /\ IF r.ret # 0
                   THEN pc' = "done" /\ ret' = 0
                   ELSE pc' = "name" /\ ret' = ret
       ELSE /\ pc' = "name"
            /\ UNCHANGED <<udev, retval, ret>>
    /\ UNCHANGED <<fs, nextIno, ifname, environ, db, class_dev, rules, fault,
                   cn, mn, trace, made, made_before, calls>>

\* namedev_name_device fills in what the rules decide
namedev_name_device(dev, r) ==
    [dev EXCEPT !.name = r.name, !.mode = r.mode, !.owner = r.owner,
                !.group = r.group, !.symlink = r.symlink,
                !.partitions = r.partitions]

\* lines 294-301, 314-316: name the device, selinux_init, and pick the branch
NameDevice ==
    /\ pc = "name"
    /\ IF Faulty("namedev", "call")
       THEN /\ trace' = Append(trace, Ev("namedev", << >>, FALSE))
            /\ pc' = "exit"
            /\ udev' = udev
       ELSE /\ udev' = namedev_name_device(udev, rules)
            /\ trace' = trace \o <<Ev("namedev", << >>, TRUE),
                                   Ev("selinux_init", << >>, TRUE)>>
            /\ pc' = IF udev.type \in NodeTypes THEN "create_node"
                     ELSE IF udev.type = "n" /\ udev'.name # udev.kernel_name
                          THEN "rename"
                     ELSE "exit"
    /\ UNCHANGED <<fs, nextIno, ifname, environ, db, class_dev, rules, fault,
                   cn, mn, retval, ret, made, made_before, calls>>

\* the switch of create_node: the type bits of the mode, "none" for the
\* default case
TypeFmt(type) ==
    CASE type = "b" -> "blk"
      [] type \in {"c", "u"} -> "chr"
      [] type = "p" -> "fifo"
      [] OTHER -> "none"

\* the frame of a make_node call
MnCall(file, major, minor, mode, uid, gid, role) ==
    [req |-> [file |-> file, major |-> major, minor |-> minor, mode |-> mode,
              uid |-> uid, gid |-> gid],
     retval |-> 0, role |-> role, failed |-> FALSE]

\* lines 132-193: the path, the type bits, the parent directories, the owner
\* and the group; then make_node for the primary node unless test_run
CreateNodeBegin ==
    /\ pc = "create_node"
    /\ LET filename == udev_root \o <<"/">> \o udev.name
           fmt      == TypeFmt(udev.type)
           mode     == [udev.mode EXCEPT !.fmt = fmt]
           wantdir  == strrchr(udev.name, "/") # 0
           cp       == create_path(fs, filename, Faulty("mkdir", "primary"))
           uid      == owner_uid(udev.owner)
           gid      == group_gid(udev.group)
       IN  IF fmt = "none"
           THEN /\ retval' = -22
                /\ pc' = "exit"
                /\ UNCHANGED <<fs, udev, cn, mn, trace>>
           ELSE /\ udev' = [udev EXCEPT !.mode = mode]
                /\ fs' = IF wantdir THEN cp.fs ELSE fs
                /\ trace' = IF wantdir /\ cp.tried
                            THEN Append(trace, Ev("mkdir", filename, cp.ok))
                            ELSE trace
                /\ cn' = [NoCn EXCEPT !.filename = filename, !.uid = uid,
                                      !.gid = gid, !.i = 1]
                /\ IF ~udev.test_run
                   THEN /\ mn' = MnCall(filename, udev.major, udev.minor, mode,
                                        uid, gid, "primary")
                        /\ pc' = "mn_stat"
                   ELSE /\ mn' = mn
                        /\ pc' = "parts"
                /\ retval' = retval
    /\ UNCHANGED <<nextIno, ifname, environ, db, class_dev, rules, fault, ret,
                   made, made_before, calls>>

(***************************************************************************)
(* make_node, one system call at a time.                                    *)
(***************************************************************************)
\* preserve_node with major and minor swapped in the comparison
preserve_node_swapped(stats, req) ==
    /\ stats.kind \in {"blk", "chr"}
    /\ stats.major = req.minor
    /\ stats.minor = req.major

\* lines 80-81: a block or char node with the requested device number
preserve_node(stats, req) ==
    /\ stats.kind \in {"blk", "chr"}
    /\ stats.major = req.major
    /\ stats.minor = req.minor

\* lines 76-85: stat, and the decision to create, to preserve or to replace
MnStat ==
    /\ pc = "mn_stat"
    /\ IF ~Exists(fs, mn.req.file)
       THEN pc' = "mn_mknod" /\ trace' = trace
       ELSE IF preserve_node(fs[mn.req.file], mn.req)
            THEN /\ pc' = "mn_chmod"
                 /\ trace' = Append(trace, Ev("setfilecon", mn.req.file, TRUE))
            ELSE pc' = "mn_unlink" /\ trace' = trace
    /\ UNCHANGED <<fs, nextIno, ifname, environ, db, class_dev, rules, fault,
                   udev, cn, mn, retval, ret, made, made_before, calls>>

\* lines 87-90: unlink, its failure only logged
MnUnlink ==
    /\ pc = "mn_unlink"
    /\ LET r == sys_unlink(fs, mn.req.file, FALSE)
       IN  /\ fs' = r.fs
           /\ trace' = Append(trace, Ev("unlink", mn.req.file, r.ok))
    /\ pc' = "mn_mknod"
    /\ UNCHANGED <<nextIno, ifname, environ, db, class_dev, rules, fault, udev,
                   cn, mn, retval, ret, made, made_before, calls>>

\* lines 92-99
MnMknod ==
    /\ pc = "mn_mknod"
    /\ LET r == sys_mknod(fs, mn.req.file, mn.req.mode, mn.req.major,
                          mn.req.minor, nextIno, Faulty("mknod", mn.role))
       IN  /\ fs' = r.fs
           /\ nextIno' = IF r.ok THEN nextIno + 1 ELSE nextIno
           /\ trace' = trace \o <<Ev("setfscreatecon", mn.req.file, TRUE),
                                  Ev("mknod", mn.req.file, r.ok)>>
           /\ mn' = [mn EXCEPT !.retval = IF r.ok THEN 0 ELSE -1,
                               !.failed = ~r.ok]
           /\ pc' = IF r.ok THEN "mn_chmod" ELSE "mn_exit"
    /\ UNCHANGED <<ifname, environ, db, class_dev, rules, fault, udev, cn,
                   retval, ret, made, made_before, calls>>

\* lines 101-108: a failed chmod goes to exit with retval as it stands
MnChmod ==
    /\ pc = "mn_chmod"
    /\ LET r == sys_chmod(fs, mn.req.file, mn.req.mode, Faulty("chmod", mn.role))
       IN  /\ fs' = r.fs
           /\ trace' = Append(trace, Ev("chmod", mn.req.file, r.ok))
           /\ mn' = [mn EXCEPT !.failed = ~r.ok]
           /\ pc' = IF ~r.ok THEN "mn_exit"
                    ELSE IF mn.req.uid # 0 \/ mn.req.gid # 0 THEN "mn_chown"
                    ELSE "mn_exit"
    /\ UNCHANGED <<nextIno, ifname, environ, db, class_dev, rules, fault, udev,
                   cn, retval, ret, made, made_before, calls>>

\* lines 109-115: a failed chown goes to exit with retval as it stands
MnChown ==
    /\ pc = "mn_chown"
    /\ LET r == sys_chown(fs, mn.req.file, mn.req.uid, mn.req.gid,
                          Faulty("chown", mn.role))
       IN  /\ fs' = r.fs
           /\ trace' = Append(trace, Ev("chown", mn.req.file, r.ok))
           /\ mn' = [mn EXCEPT !.failed = ~r.ok]
    /\ pc' = "mn_exit"
    /\ UNCHANGED <<nextIno, ifname, environ, db, class_dev, rules, fault, udev,
                   cn, retval, ret, made, made_before, calls>>

\* MnExit with the result of a partition's make_node checked like the
\* primary node's
MnExit_partition_fatal ==
    /\ pc = "mn_exit"
    /\ trace' = Append(trace, Ev("make_node", mn.req.file, mn.retval = 0))
    /\ IF mn.role = "primary"
       THEN /\ made' = [over |-> TRUE, clean |-> ~mn.failed, req |-> mn.req,
                        node |-> EntryAt(fs, mn.req.file)]
            /\ cn' = cn
       ELSE /\ cn' = [cn EXCEPT !.i = @ + 1]
            /\ made' = made
    /\ IF mn.retval # 0
       THEN retval' = -1 /\ pc' = "exit"
       ELSE retval' = retval /\ pc' = "parts"
    /\ UNCHANGED <<fs, nextIno, ifname, environ, db, class_dev, rules, fault,
                   udev, mn, ret, made_before, calls>>

\* MnExit with the result of the primary node's make_node dropped like a
\* partition's
MnExit_primary_unchecked ==
    /\ pc = "mn_exit"
    /\ trace' = Append(trace, Ev("make_node", mn.req.file, mn.retval = 0))
    /\ IF mn.role = "primary"
       THEN /\ made' = [over |-> TRUE, clean |-> ~mn.failed, req |-> mn.req,
                        node |-> EntryAt(fs, mn.req.file)]
            /\ cn' = cn
       ELSE /\ cn' = [cn EXCEPT !.i = @ + 1]
            /\ made' = made
    /\ pc' = "parts"
    /\ UNCHANGED <<fs, nextIno, ifname, environ, db, class_dev, rules, fault,
                   udev, mn, retval, ret, made_before, calls>>

\* lines 117-118 and the callers' use of the result (lines 187-188, 202):
\* a failed primary node ends create_node with -1, a partition's result is
\* dropped
MnExit ==
    /\ pc = "mn_exit"
    /\ trace' = Append(trace, Ev("make_node", mn.req.file, mn.retval = 0))
    /\ IF mn.role = "primary"
       THEN /\ made' = [over |-> TRUE, clean |-> ~mn.failed, req |-> mn.req,
                        node |-> EntryAt(fs, mn.req.file)]
            /\ cn' = cn
            /\ IF mn.retval # 0
               THEN retval' = -1 /\ pc' = "exit"
               ELSE retval' = retval /\ pc' = "parts"
       ELSE /\ cn' = [cn EXCEPT !.i = @ + 1]
            /\ pc' = "parts"
            /\ UNCHANGED <<made, retval>>
    /\ UNCHANGED <<fs, nextIno, ifname, environ, db, class_dev, rules, fault,
                   udev, mn, ret, made_before, calls>>

(***************************************************************************)
(* create_node, after the primary node.                                     *)
(***************************************************************************)
\* Parts with the partitions numbered from the primary node's minor
\* (minor + i - 1)
Parts_minor_from_zero ==
    /\ pc = "parts"
    /\ IF udev.partitions > 0 /\ ~udev.test_run /\ cn.i <= udev.partitions
       THEN /\ mn' = MnCall(cn.filename \o Decimal(cn.i), udev.major,
                            udev.minor + cn.i - 1, udev.mode, cn.uid, cn.gid,
                            PartRole(cn.i))
            /\ pc' = "mn_stat"
            /\ cn' = cn
       ELSE /\ cn' = [cn EXCEPT !.tokens = strparts(udev.symlink), !.k = 1]
            /\ pc' = "symlinks"
            /\ mn' = mn
    /\ UNCHANGED <<fs, nextIno, ifname, environ, db, class_dev, rules, fault,
                   udev, retval, ret, trace, made, made_before, calls>>

\* lines 195-205: the next partition node, or on to the symlinks
Parts ==
    /\ pc = "parts"
    /\ IF udev.partitions > 0 /\ ~udev.test_run /\ cn.i <= udev.partitions
       THEN /\ mn' = MnCall(cn.filename \o Decimal(cn.i), udev.major,
                            udev.minor + cn.i, udev.mode, cn.uid, cn.gid,
                            PartRole(cn.i))
            /\ pc' = "mn_stat"
            /\ cn' = cn
       ELSE /\ cn' = [cn EXCEPT !.tokens = strparts(udev.symlink), !.k = 1]
            /\ pc' = "symlinks"
            /\ mn' = mn
    /\ UNCHANGED <<fs, nextIno, ifname, environ, db, class_dev, rules, fault,
                   udev, retval, ret, trace, made, made_before, calls>>

\* lines 208-236: the next symlink token, its path, its directories and its
\* relative target; create_node returns 0 after the last one
Symlink ==
    /\ pc = "symlinks"
    /\ IF cn.k > Len(cn.tokens)
       THEN /\ retval' = 0
            /\ pc' = "db_add"
            /\ UNCHANGED <<fs, cn, trace>>
       ELSE LET linkname == cn.tokens[cn.k]
                filename == udev_root \o <<"/">> \o linkname
                wantdir  == ~udev.test_run /\ strrchr(linkname, "/") # 0
                cp       == create_path(fs, filename, Faulty("mkdir", SymRole(cn.k)))
            IN  /\ fs' = IF wantdir THEN cp.fs ELSE fs
                /\ trace' = IF wantdir /\ cp.tried
                            THEN Append(trace, Ev("mkdir", filename, cp.ok))
                            ELSE trace
                /\ IF udev.test_run
                   THEN /\ cn' = [cn EXCEPT !.filename = filename,
                                    !.linkname = linkname,
                                    !.linktarget = relative_link(udev.name, linkname),
                                    !.k = @ + 1]
                        /\ pc' = "symlinks"
                   ELSE /\ cn' = [cn EXCEPT !.filename = filename,
                                    !.linkname = linkname,
                                    !.linktarget = relative_link(udev.name, linkname)]
                        /\ pc' = "sym_unlink"
                /\ retval' = retval
    /\ UNCHANGED <<nextIno, ifname, environ, db, class_dev, rules, fault, udev,
                   mn, ret, made, made_before, calls>>

\* lines 240-241: unlink of what is at the link's path, its result dropped
SymUnlink ==
    /\ pc = "sym_unlink"
    /\ LET r == sys_unlink(fs, cn.filename, FALSE)
       IN  /\ fs' = r.fs
           /\ trace' = trace \o <<Ev("setfscreatecon", cn.filename, TRUE),
                                  Ev("unlink", cn.filename, r.ok)>>
    /\ pc' = "sym_link"
    /\ UNCHANGED <<nextIno, ifname, environ, db, class_dev, rules, fault, udev,
                   cn, mn, retval, ret, made, made_before, calls>>

\* lines 242-244: symlink, its failure only logged
SymLink ==
    /\ pc = "sym_link"
    /\ LET r == sys_symlink(fs, cn.linktarget, cn.filename,
                            Faulty("symlink", SymRole(cn.k)))
       IN  /\ fs' = r.fs
           /\ trace' = Append(trace, Ev("symlink", cn.filename, r.ok))
    /\ cn' = [cn EXCEPT !.k = @ + 1]
    /\ pc' = "symlinks"
    /\ UNCHANGED <<nextIno, ifname, environ, db, class_dev, rules, fault, udev,
                   mn, retval, ret, made, made_before, calls>>

\* lines 306-312: record the device (a failure is only logged) and write
\* devname
DbAdd ==
    /\ pc = "db_add"
    /\ LET ok == ~Faulty("db_add", "call")
       IN  /\ db' = IF ok THEN Append(db, udev) ELSE db
           /\ trace' = Append(trace, Ev("db_add", << >>, ok))
    /\ udev' = [udev EXCEPT !.devname = udev_root \o <<"/">> \o udev.name]
    /\ pc' = "exit"
    /\ UNCHANGED <<fs, nextIno, ifname, environ, class_dev, rules, fault, cn,
                   mn, retval, ret, made, made_before, calls>>

(***************************************************************************)
(* rename_net_if and the network branch of udev_add_device.                 *)
(***************************************************************************)
\* RenameSocket with a failed socket returned from udev_add_device at once
\* ("return retval" where the code has "goto exit")
RenameSocket_return ==
    /\ pc = "rename"
    /\ IF udev.test_run
       THEN /\ retval' = 0
            /\ pc' = "renamed"
            /\ trace' = Append(trace, Ev("rename_net_if", udev.name, TRUE))
            /\ ret' = ret
       ELSE LET ok == ~Faulty("socket", "net")
            IN  /\ trace' = trace \o <<Ev("rename_net_if", udev.name, TRUE),
                                       Ev("socket", << >>, ok)>>
                /\ retval' = IF ok THEN retval ELSE -1
                /\ pc' = IF ok THEN "ioctl" ELSE "done"
                /\ ret' = IF ok THEN ret ELSE -1
    /\ UNCHANGED <<fs, nextIno, ifname, environ, db, class_dev, rules, fault,
                   udev, cn, mn, made, made_before, calls>>

\* lines 259-267, 317-319: nothing in test mode, else open the socket
RenameSocket ==
    /\ pc = "rename"
    /\ IF udev.test_run
       THEN /\ retval' = 0
            /\ pc' = "renamed"
            /\ trace' = Append(trace, Ev("rename_net_if", udev.name, TRUE))
       ELSE LET ok == ~Faulty("socket", "net")
            IN  /\ trace' = trace \o <<Ev("rename_net_if", udev.name, TRUE),
                                       Ev("socket", << >>, ok)>>
                /\ retval' = IF ok THEN retval ELSE -1
                /\ pc' = IF ok THEN "ioctl" ELSE "exit"
    /\ UNCHANGED <<fs, nextIno, ifname, environ, db, class_dev, rules, fault,
                   udev, cn, mn, ret, made, made_before, calls>>

\* RenameIoctl without the "if (retval != 0) goto exit" of lines 318-319
RenameIoctl_unchecked ==
    /\ pc = "ioctl"
    /\ LET ok == ~Faulty("ioctl", "net") /\ ifname = udev.kernel_name
       IN  /\ ifname' = IF ok THEN udev.name ELSE ifname
           /\ trace' = trace \o <<Ev("ioctl", udev.name, ok),
                                  Ev("close", << >>, TRUE)>>
           /\ retval' = IF ok THEN 0 ELSE -1
           /\ pc' = "renamed"
    /\ UNCHANGED <<fs, nextIno, environ, db, class_dev, rules, fault, udev, cn,
                   mn, ret, made, made_before, calls>>

\* lines 269-278, 317-319: SIOCSIFNAME renames the interface the kernel
\* knows as kernel_name, then close
RenameIoctl ==
    /\ pc = "ioctl"
    /\ LET ok == ~Faulty("ioctl", "net") /\ ifname = udev.kernel_name
       IN  /\ ifname' = IF ok THEN udev.name ELSE ifname
           /\ trace' = trace \o <<Ev("ioctl", udev.name, ok),
                                  Ev("close", << >>, TRUE)>>
           /\ retval' = IF ok THEN 0 ELSE -1
           /\ pc' = IF ok THEN "renamed" ELSE "exit"
    /\ UNCHANGED <<fs, nextIno, environ, db, class_dev, rules, fault, udev, cn,
                   mn, ret, made, made_before, calls>>

\* lines 325-333: the devpath with its last segment replaced, DEVPATH, devname
Renamed ==
    /\ pc = "renamed"
    /\ LET pos == strrchr(udev.devpath, "/")
           devpath == SubSeq(udev.devpath, 1, pos) \o udev.name
       IN  IF pos # 0
           THEN /\ udev' = [udev EXCEPT !.devpath = devpath, !.devname = udev.name]
                /\ environ' = devpath
                /\ trace' = Append(trace, Ev("setenv", devpath, TRUE))
           ELSE /\ udev' = [udev EXCEPT !.devname = udev.name]
                /\ UNCHANGED <<environ, trace>>
    /\ pc' = "exit"
    /\ UNCHANGED <<fs, nextIno, ifname, db, class_dev, rules, fault, cn, mn,
                   retval, ret, made, made_before, calls>>

\* lines 337-340
Exit ==
    /\ pc = "exit"
    /\ trace' = Append(trace, Ev("selinux_restore", << >>, TRUE))
    /\ ret' = retval
    /\ pc' = "done"
    /\ UNCHANGED <<fs, nextIno, ifname, environ, db, class_dev, rules, fault,
                   udev, cn, mn, retval, made, made_before, calls>>

\* the same kernel event once more (a duplicate event): a fresh descriptor
\* for the same device, over the file system the call before left
NextEvent ==
    /\ pc = "done"
    /\ calls < MaxCalls
    /\ calls' = calls + 1
    /\ udev' = FreshDevice(udev.type, udev.test_run)
    /\ pc' = "start"
    /\ cn' = NoCn
    /\ mn' = NoMn
    /\ retval' = 0
    /\ trace' = << >>
    /\ made' = NoMade
    /\ made_before' = made
    /\ UNCHANGED <<fs, nextIno, ifname, environ, db, class_dev, rules, fault, ret>>

Next ==
    \/ Resolve
    \/ NameDevice
    \/ CreateNodeBegin
    \/ MnStat
    \/ MnUnlink
    \/ MnMknod
    \/ MnChmod
    \/ MnChown
    \/ MnExit
    \/ Parts
    \/ Symlink
    \/ SymUnlink
    \/ SymLink
    \/ DbAdd
    \/ RenameSocket
    \/ RenameIoctl
    \/ Renamed
    \/ Exit
    \/ NextEvent

Spec == Init /\ [][Next]_vars

(***************************************************************************)
(* make_node and create_node as functions: a whole call run with no other  *)
(* process in between and no system call failing but by the state of the   *)
(* file system.  Each yields the file system, the next inode number and    *)
(* the return value.                                                        *)
(***************************************************************************)
\* lines 71-119
make_node(f, ino, req) ==
    LET there   == Exists(f, req.file)
        keep    == there /\ preserve_node(f[req.file], req)
        f1      == IF there /\ ~keep THEN sys_unlink(f, req.file, FALSE).fs ELSE f
        mk      == sys_mknod(f1, req.file, req.mode, req.major, req.minor, ino, FALSE)
        retval_ == IF keep \/ mk.ok THEN 0 ELSE -1
        f2      == IF keep THEN f ELSE mk.fs
        ch      == sys_chmod(f2, req.file, req.mode, FALSE)
        f3      == IF retval_ = 0 THEN ch.fs ELSE f2
        owned   == retval_ = 0 /\ ch.ok /\ (req.uid # 0 \/ req.gid # 0)
        f4      == IF owned
                   THEN sys_chown(f3, req.file, req.uid, req.gid, FALSE).fs
                   ELSE f3
    IN  [fs |-> f4, ino |-> IF ~keep /\ mk.ok THEN ino + 1 ELSE ino,
         retval |-> retval_]

\* lines 199-203: the partitions from i on
RECURSIVE make_partitions(_, _, _, _, _)
make_partitions(f, ino, dev, ids, i) ==
    IF i > dev.partitions THEN [fs |-> f, ino |-> ino]
    ELSE LET filename == udev_root \o <<"/">> \o dev.name
             r == make_node(f, ino,
                            [file |-> filename \o Decimal(i), major |-> dev.major,
                             minor |-> dev.minor + i, mode |-> dev.mode,
                             uid |-> ids.uid, gid |-> ids.gid])
         IN  make_partitions(r.fs, r.ino, dev, ids, i + 1)

\* lines 208-246: the symlinks of the tokens from the first on
RECURSIVE make_symlinks(_, _, _)
make_symlinks(f, dev, tokens) ==
    IF tokens = << >> THEN f
    ELSE LET linkname == Head(tokens)
             filename == udev_root \o <<"/">> \o linkname
             f1 == IF strrchr(linkname, "/") # 0
                   THEN create_path(f, filename, FALSE).fs ELSE f
             f2 == sys_unlink(f1, filename, FALSE).fs
             f3 == sys_symlink(f2, relative_link(dev.name, linkname), filename,
                               FALSE).fs
         IN  make_symlinks(f3, dev, Tail(tokens))

\* lines 121-251, for a named device outside test_run
create_node(f, ino, dev) ==
    LET filename == udev_root \o <<"/">> \o dev.name
        fmt      == TypeFmt(dev.type)
        named    == [dev EXCEPT !.mode = [dev.mode EXCEPT !.fmt = fmt]]
        f1       == IF strrchr(dev.name, "/") # 0
                    THEN create_path(f, filename, FALSE).fs ELSE f
        ids      == [uid |-> owner_uid(dev.owner), gid |-> group_gid(dev.group)]
        first    == make_node(f1, ino,
                              [file |-> filename, major |-> named.major,
                               minor |-> named.minor, mode |-> named.mode,
                               uid |-> ids.uid, gid |-> ids.gid])
        parts    == make_partitions(first.fs, first.ino, named, ids, 1)
    IN  IF fmt = "none" THEN [fs |-> f, ino |-> ino, retval |-> -22]
        ELSE IF first.retval # 0
             THEN [fs |-> first.fs, ino |-> first.ino, retval |-> -1]
        ELSE [fs |-> make_symlinks(parts.fs, named, strparts(named.symlink)),
              ino |-> parts.ino, retval |-> 0]

(***************************************************************************)
(* The relative-link computation alone, over every name and symlink token  *)
(* of up to MaxLen characters, malformed ones included.                     *)
(***************************************************************************)
PathChars == {"a", "b", "/"}
\* every text with a character that is not a '/'
PathTexts ==
    {t \in UNION {[1..n -> PathChars] : n \in 1..MaxLen} :
        \E j \in 1..Len(t) : t[j] # "/"}

InitLink ==
    \E n \in PathTexts, t \in PathTexts :
        /\ udev = [FreshDevice("b", FALSE) EXCEPT !.name = n, !.symlink = t]
        /\ cn = [NoCn EXCEPT !.tokens = strparts(t), !.k = 1]
        /\ pc = "link"
        /\ fs = (udev_root :> DirEntry)
        /\ nextIno = 2
        /\ ifname = KernelName
        /\ environ = KernelDevpath
        /\ db = << >>
        /\ class_dev = [null |-> TRUE, value |-> << >>]
        /\ rules = PlainRules
        /\ fault = NoFault
        /\ mn = NoMn
        /\ retval = 0
        /\ ret = 0
        /\ trace = << >>
        /\ made = NoMade
        /\ made_before = NoMade
        /\ calls = 1

\* lines 212-236 for the token at hand: linkname, filename and linktarget
LinkTarget ==
    /\ pc = "link"
    /\ LET linkname == cn.tokens[cn.k]
       IN  cn' = [cn EXCEPT !.linkname = linkname,
                            !.filename = udev_root \o <<"/">> \o linkname,
                            !.linktarget = relative_link(udev.name, linkname)]
    /\ pc' = "linked"
    /\ UNCHANGED <<fs, nextIno, ifname, environ, db, class_dev, rules, fault,
                   udev, mn, retval, ret, trace, made, made_before, calls>>

NextLink == LinkTarget

SpecLink == InitLink /\ [][NextLink]_vars

(***************************************************************************)
(* Two udev_add_device calls at once (one process per hotplug event), for  *)
(* the same device or for two unrelated ones, over one file system.  Here  *)
(* class_dev, rules, udev, pc, cn, mn, retval, ret, trace, made and        *)
(* made_before are functions of the process; fs, nextIno and db are        *)
(* shared.  A step is one system call, as in the steps above.  The runs    *)
(* are real ones (no test_run) and no failure is injected: a system call   *)
(* fails only by what the other process did to the file system.            *)
(* made_before[p].node is the entry an earlier event left at p's path.     *)
(***************************************************************************)
Procs == {1, 2}
Other(p) == 3 - p

\* the rules of the two events: a name at the root or under d/, with or
\* without a partition and a symlink, owner 5 so that chown is called
ParRules(n, np, sl) ==
    [name |-> n, mode |-> [fmt |-> "none", perm |-> RulePerm],
     owner |-> <<"5">>, group |-> << >>, symlink |-> sl, partitions |-> np]

\* what an earlier event may have left at a primary path: nothing, the node
\* of this device, a node with another number, a regular file
ParPre(major, ino) ==
    {NoEntry, RegEntry, Node("blk", major, 0, {"ur"}, 0, 0, ino),
     Node("blk", major, 1, {"ur"}, 0, 0, ino)}

ParDevice(kernel_name) ==
    [FreshDevice("b", FALSE) EXCEPT
        !.kernel_name = kernel_name,
        !.devpath = <<"/", "c", "/">> \o kernel_name]

\* the file system the two events find
ParInitFs(r, before) ==
    LET at == {p \in Procs : before[p].node # NoEntry}
        dirs == UNION {DirsAbove(PrimaryPath(r[p])) : p \in at}
    IN  [q \in {PrimaryPath(r[p]) : p \in at} |->
            before[CHOOSE p \in at : PrimaryPath(r[p]) = q].node]
        @@ [d \in dirs \cup {udev_root} |-> DirEntry]

InitPar ==
    \E same \in BOOLEAN, nested \in BOOLEAN, np1 \in 0..1, np2 \in 0..1,
       sl1 \in {<< >>, <<"d", "/", "s">>},
       pre1 \in ParPre(8, 1), pre2 \in ParPre(9, 2) :
        LET name1 == IF nested THEN <<"d", "/", "a">> ELSE <<"a">>
            name2 == IF nested THEN <<"d", "/", "b">> ELSE <<"b">>
            r1    == ParRules(name1, np1, sl1)
            r2    == IF same THEN r1 ELSE ParRules(name2, np2, << >>)
        IN  /\ same => np2 = np1 /\ pre2 = NoEntry
            /\ rules = <<r1, r2>>
            /\ class_dev = <<[null |-> FALSE, value |-> <<"8", ":", "0">>],
                             [null |-> FALSE,
                              value |-> IF same THEN <<"8", ":", "0">>
                                        ELSE <<"9", ":", "0">>]>>
            /\ udev = <<ParDevice(<<"a">>),
                        ParDevice(IF same THEN <<"a">> ELSE <<"b">>)>>
            /\ made_before = <<[NoMade EXCEPT !.node = pre1],
                               [NoMade EXCEPT !.node = IF same THEN pre1 ELSE pre2]>>
            /\ fs = ParInitFs(rules, made_before)
            /\ nextIno = 3
            /\ ifname = KernelName
            /\ environ = KernelDevpath
            /\ db = << >>
            /\ fault = NoFault
            /\ pc = [p \in Procs |-> "start"]
            /\ cn = [p \in Procs |-> NoCn]
            /\ mn = [p \in Procs |-> NoMn]
            /\ retval = [p \in Procs |-> 0]
            /\ ret = [p \in Procs |-> 0]
            /\ trace = [p \in Procs |-> << >>]
            /\ made = [p \in Procs |-> NoMade]
            /\ calls = 2

\* what no step of the two calls changes
ParFixed == <<ifname, environ, class_dev, rules, fault, made_before, calls>>

\* lines 286-299: major/minor, the name, selinux_init
ParStart(p) ==
    /\ pc[p] = "start"
    /\ LET r == get_major_minor(class_dev[p], udev[p])
       IN  IF r.ret # 0
           THEN /\ udev' = [udev EXCEPT ![p] = r.udev]
                /\ pc' = [pc EXCEPT ![p] = "done"]
                /\ ret' = [ret EXCEPT ![p] = 0]
                /\ trace' = trace
           ELSE /\ udev' = [udev EXCEPT ![p] = namedev_name_device(r.udev, rules[p])]
                /\ pc' = [pc EXCEPT ![p] = "create_node"]
                /\ ret' = ret
                /\ trace' = [trace EXCEPT ![p] =
                                @ \o <<Ev("namedev", << >>, TRUE),
                                       Ev("selinux_init", << >>, TRUE)>>]
    /\ UNCHANGED <<fs, nextIno, db, cn, mn, retval, made>>
    /\ UNCHANGED ParFixed

\* lines 132-187: as CreateNodeBegin
ParCreateNodeBegin(p) ==
    /\ pc[p] = "create_node"
    /\ LET filename == udev_root \o <<"/">> \o udev[p].name
           fmt      == TypeFmt(udev[p].type)
           mode     == [udev[p].mode EXCEPT !.fmt = fmt]
           wantdir  == strrchr(udev[p].name, "/") # 0
           cp       == create_path(fs, filename, FALSE)
           uid      == owner_uid(udev[p].owner)
           gid      == group_gid(udev[p].group)
       IN  /\ udev' = [udev EXCEPT ![p].mode = mode]
           /\ fs' = IF wantdir THEN cp.fs ELSE fs
           /\ trace' = IF wantdir /\ cp.tried
                       THEN [trace EXCEPT ![p] = Append(@, Ev("mkdir", filename, cp.ok))]
                       ELSE trace
           /\ cn' = [cn EXCEPT ![p] = [NoCn EXCEPT !.filename = filename,
                                          !.uid = uid, !.gid = gid, !.i = 1]]
           /\ mn' = [mn EXCEPT ![p] = MnCall(filename, udev[p].major, udev[p].minor,
                                             mode, uid, gid, "primary")]
           /\ pc' = [pc EXCEPT ![p] = "mn_stat"]
    /\ UNCHANGED <<nextIno, db, retval, ret, made>>
    /\ UNCHANGED ParFixed

\* lines 76-85
ParMnStat(p) ==
    /\ pc[p] = "mn_stat"
    /\ IF ~Exists(fs, mn[p].req.file)
       THEN pc' = [pc EXCEPT ![p] = "mn_mknod"] /\ trace' = trace
       ELSE IF preserve_node(fs[mn[p].req.file], mn[p].req)
            THEN /\ pc' = [pc EXCEPT ![p] = "mn_chmod"]
                 /\ trace' = [trace EXCEPT ![p] =
                                 Append(@, Ev("setfilecon", mn[p].req.file, TRUE))]
            ELSE pc' = [pc EXCEPT ![p] = "mn_unlink"] /\ trace' = trace
    /\ UNCHANGED <<fs, nextIno, db, udev, cn, mn, retval, ret, made>>
    /\ UNCHANGED ParFixed

\* ParMnUnlink with the unlink left out
ParMnUnlink_skipped(p) ==
    /\ pc[p] = "mn_unlink"
    /\ pc' = [pc EXCEPT ![p] = "mn_mknod"]
    /\ UNCHANGED <<fs, trace, nextIno, db, udev, cn, mn, retval, ret, made>>
    /\ UNCHANGED ParFixed

\* lines 87-90
ParMnUnlink(p) ==
    /\ pc[p] = "mn_unlink"
    /\ LET r == sys_unlink(fs, mn[p].req.file, FALSE)
       IN  /\ fs' = r.fs
           /\ trace' = [trace EXCEPT ![p] =
                           Append(@, Ev("unlink", mn[p].req.file, r.ok))]
    /\ pc' = [pc EXCEPT ![p] = "mn_mknod"]
    /\ UNCHANGED <<nextIno, db, udev, cn, mn, retval, ret, made>>
    /\ UNCHANGED ParFixed

\* lines 92-99
ParMnMknod(p) ==
    /\ pc[p] = "mn_mknod"
    /\ LET r == sys_mknod(fs, mn[p].req.file, mn[p].req.mode, mn[p].req.major,
                          mn[p].req.minor, nextIno, FALSE)
       IN  /\ fs' = r.fs
           /\ nextIno' = IF r.ok THEN nextIno + 1 ELSE nextIno
           /\ trace' = [trace EXCEPT ![p] =
                           @ \o <<Ev("setfscreatecon", mn[p].req.file, TRUE),
                                  Ev("mknod", mn[p].req.file, r.ok)>>]
           /\ mn' = [mn EXCEPT ![p].retval = IF r.ok THEN 0 ELSE -1,
                               ![p].failed = ~r.ok]
           /\ pc' = [pc EXCEPT ![p] = IF r.ok THEN "mn_chmod" ELSE "mn_exit"]
    /\ UNCHANGED <<db, udev, cn, retval, ret, made>>
    /\ UNCHANGED ParFixed

\* lines 101-108
ParMnChmod(p) ==
    /\ pc[p] = "mn_chmod"
    /\ LET r == sys_chmod(fs, mn[p].req.file, mn[p].req.mode, FALSE)
       IN  /\ fs' = r.fs
           /\ trace' = [trace EXCEPT ![p] =
                           Append(@, Ev("chmod", mn[p].req.file, r.ok))]
           /\ mn' = [mn EXCEPT ![p].failed = ~r.ok]
           /\ pc' = [pc EXCEPT ![p] =
                        IF ~r.ok THEN "mn_exit"
                        ELSE IF mn[p].req.uid # 0 \/ mn[p].req.gid # 0
                             THEN "mn_chown"
                        ELSE "mn_exit"]
    /\ UNCHANGED <<nextIno, db, udev, cn, retval, ret, made>>
    /\ UNCHANGED ParFixed

\* lines 109-115
ParMnChown(p) ==
    /\ pc[p] = "mn_chown"
    /\ LET r == sys_chown(fs, mn[p].req.file, mn[p].req.uid, mn[p].req.gid, FALSE)
       IN  /\ fs' = r.fs
           /\ trace' = [trace EXCEPT ![p] =
                           Append(@, Ev("chown", mn[p].req.file, r.ok))]
           /\ mn' = [mn EXCEPT ![p].failed = ~r.ok]
    /\ pc' = [pc EXCEPT ![p] = "mn_exit"]
    /\ UNCHANGED <<nextIno, db, udev, cn, retval, ret, made>>
    /\ UNCHANGED ParFixed

\* lines 117-118, 187-188, 202: as MnExit
ParMnExit(p) ==
    /\ pc[p] = "mn_exit"
    /\ trace' = [trace EXCEPT ![p] =
                    Append(@, Ev("make_node", mn[p].req.file, mn[p].retval = 0))]
    /\ IF mn[p].role = "primary"
       THEN /\ made' = [made EXCEPT ![p] =
                           [over |-> TRUE, clean |-> ~mn[p].failed,
                            req |-> mn[p].req,
                            node |-> EntryAt(fs, mn[p].req.file)]]
            /\ cn' = cn
            /\ IF mn[p].retval # 0
               THEN /\ retval' = [retval EXCEPT ![p] = -1]
                    /\ pc' = [pc EXCEPT ![p] = "exit"]
               ELSE /\ retval' = retval
                    /\ pc' = [pc EXCEPT ![p] = "parts"]
       ELSE /\ cn' = [cn EXCEPT ![p].i = @ + 1]
            /\ pc' = [pc EXCEPT ![p] = "parts"]
            /\ UNCHANGED <<made, retval>>
    /\ UNCHANGED <<fs, nextIno, db, udev, mn, ret>>
    /\ UNCHANGED ParFixed

\* lines 195-205
ParParts(p) ==
    /\ pc[p] = "parts"
    /\ IF udev[p].partitions > 0 /\ cn[p].i <= udev[p].partitions
       THEN /\ mn' = [mn EXCEPT ![p] =
                         MnCall(cn[p].filename \o Decimal(cn[p].i), udev[p].major,
                                udev[p].minor + cn[p].i, udev[p].mode, cn[p].uid,
                                cn[p].gid, PartRole(cn[p].i))]
            /\ pc' = [pc EXCEPT ![p] = "mn_stat"]
            /\ cn' = cn
       ELSE /\ cn' = [cn EXCEPT ![p].tokens = strparts(udev[p].symlink),
                               ![p].k = 1]
            /\ pc' = [pc EXCEPT ![p] = "symlinks"]
            /\ mn' = mn
    /\ UNCHANGED <<fs, nextIno, db, udev, retval, ret, trace, made>>
    /\ UNCHANGED ParFixed

\* lines 208-236
ParSymlink(p) ==
    /\ pc[p] = "symlinks"
    /\ IF cn[p].k > Len(cn[p].tokens)
       THEN /\ retval' = [retval EXCEPT ![p] = 0]
            /\ pc' = [pc EXCEPT ![p] = "db_add"]
            /\ UNCHANGED <<fs, cn, trace>>
       ELSE LET linkname == cn[p].tokens[cn[p].k]
                filename == udev_root \o <<"/">> \o linkname
                wantdir  == strrchr(linkname, "/") # 0
                cp       == create_path(fs, filename, FALSE)
            IN  /\ fs' = IF wantdir THEN cp.fs ELSE fs
                /\ trace' = IF wantdir /\ cp.tried
                            THEN [trace EXCEPT ![p] =
                                     Append(@, Ev("mkdir", filename, cp.ok))]
                            ELSE trace
                /\ cn' = [cn EXCEPT ![p].filename = filename,
                                    ![p].linkname = linkname,
                                    ![p].linktarget =
                                        relative_link(udev[p].name, linkname)]
                /\ pc' = [pc EXCEPT ![p] = "sym_unlink"]
                /\ retval' = retval
    /\ UNCHANGED <<nextIno, db, udev, mn, ret, made>>
    /\ UNCHANGED ParFixed

\* lines 240-241
ParSymUnlink(p) ==
    /\ pc[p] = "sym_unlink"
    /\ LET r == sys_unlink(fs, cn[p].filename, FALSE)
       IN  /\ fs' = r.fs
           /\ trace' = [trace EXCEPT ![p] =
                           @ \o <<Ev("setfscreatecon", cn[p].filename, TRUE),
                                  Ev("unlink", cn[p].filename, r.ok)>>]
    /\ pc' = [pc EXCEPT ![p] = "sym_link"]
    /\ UNCHANGED <<nextIno, db, udev, cn, mn, retval, ret, made>>
    /\ UNCHANGED ParFixed

\* lines 242-244
ParSymLink(p) ==
    /\ pc[p] = "sym_link"
    /\ LET r == sys_symlink(fs, cn[p].linktarget, cn[p].filename, FALSE)
       IN  /\ fs' = r.fs
           /\ trace' = [trace EXCEPT ![p] =
                           Append(@, Ev("symlink", cn[p].filename, r.ok))]
    /\ cn' = [cn EXCEPT ![p].k = @ + 1]
    /\ pc' = [pc EXCEPT ![p] = "symlinks"]
    /\ UNCHANGED <<nextIno, db, udev, mn, retval, ret, made>>
    /\ UNCHANGED ParFixed

\* lines 306-312
ParDbAdd(p) ==
    /\ pc[p] = "db_add"
    /\ db' = Append(db, udev[p])
    /\ trace' = [trace EXCEPT ![p] = Append(@, Ev("db_add", << >>, TRUE))]
    /\ udev' = [udev EXCEPT ![p].devname = udev_root \o <<"/">> \o udev[p].name]
    /\ pc' = [pc EXCEPT ![p] = "exit"]
    /\ UNCHANGED <<fs, nextIno, cn, mn, retval, ret, made>>
    /\ UNCHANGED ParFixed

\* lines 337-340
ParExit(p) ==
    /\ pc[p] = "exit"
    /\ trace' = [trace EXCEPT ![p] = Append(@, Ev("selinux_restore", << >>, TRUE))]
    /\ ret' = [ret EXCEPT ![p] = retval[p]]
    /\ pc' = [pc EXCEPT ![p] = "done"]
    /\ UNCHANGED <<fs, nextIno, db, udev, cn, mn, retval, made>>
    /\ UNCHANGED ParFixed

NextPar ==
    \E p \in Procs :
        \/ ParStart(p)
        \/ ParCreateNodeBegin(p)
        \/ ParMnStat(p)
        \/ ParMnUnlink(p)
        \/ ParMnMknod(p)
        \/ ParMnChmod(p)
        \/ ParMnChown(p)
        \/ ParMnExit(p)
        \/ ParParts(p)
        \/ ParSymlink(p)
        \/ ParSymUnlink(p)
        \/ ParSymLink(p)
        \/ ParDbAdd(p)
        \/ ParExit(p)

SpecPar == InitPar /\ [][NextPar]_vars

(***************************************************************************)
(* What a path denotes: its segments, with empty segments dropped (the     *)
(* kernel reads "a//b" as "a/b") and ".." stepping up.                      *)
(***************************************************************************)
RECURSIVE Segments(_)
Segments(path) ==
    IF path = << >> THEN << >>
    ELSE IF path[1] = "/" THEN Segments(Tail(path))
    ELSE LET sl  == {j \in 1..Len(path) : path[j] = "/"}
             end == IF sl = {} THEN Len(path) + 1
                    ELSE CHOOSE j \in sl : \A m \in sl : j <= m
         IN  <<SubSeq(path, 1, end - 1)>> \o Segments(Tail_(path, end))

RECURSIVE Walk(_, _)
Walk(at, segs) ==
    IF segs = << >> THEN at
    ELSE IF Head(segs) = <<".", ".">>
         THEN Walk(IF at = << >> THEN at ELSE SubSeq(at, 1, Len(at) - 1), Tail(segs))
    ELSE Walk(Append(at, Head(segs)), Tail(segs))

IsAbsolute(path) == path # << >> /\ path[1] = "/"

\* the file a symlink at linkpath with the given target points to
Denotes(linkpath, target) ==
    LET here == Segments(linkpath)
        dir  == SubSeq(here, 1, Len(here) - 1)
    IN  IF IsAbsolute(target) THEN Walk(<< >>, Segments(target))
        ELSE Walk(dir, Segments(target))

\* no empty segment: no '/' at either end and no "//"
WellFormed(path) ==
    /\ path # << >>
    /\ path[1] # "/"
    /\ path[Len(path)] # "/"
    /\ \A j \in 1..(Len(path) - 1) : ~(path[j] = "/" /\ path[j + 1] = "/")

(***************************************************************************)
(* Properties.                                                              *)
(***************************************************************************)
Did(op) == \E j \in 1..Len(trace) : trace[j].op = op
DidOk(op) == \E j \in 1..Len(trace) : trace[j].op = op /\ trace[j].ok
DidOn(op, path) ==
    \E j \in 1..Len(trace) : trace[j].op = op /\ trace[j].path = path
CountOf(op) == Cardinality({j \in 1..Len(trace) : trace[j].op = op})

\* the system calls that change the file system or the kernel's interfaces
MutatingOps ==
    {"mkdir", "unlink", "mknod", "chmod", "chown", "symlink", "socket", "ioctl"}
Mutated == \E j \in 1..Len(trace) : trace[j].op \in MutatingOps

\* the texts of the "dev" attribute that are "%u:%u", and what they mean
GoodDevTexts == {<<"8", ":", "0">>, <<"8", ":", "0", "\n">>}
DevResolves == ~class_dev.null /\ class_dev.value \in GoodDevTexts
RootOnly == (udev_root :> DirEntry)
NamingFailed == \E j \in 1..Len(trace) : trace[j].op = "namedev" /\ ~trace[j].ok

\* C1: whenever mknod, chmod or chown fails in make_node, make_node returns
\* non-zero, and udev_add_device fails when that was the primary node.
C1_FailureSurfaced ==
    /\ pc = "mn_exit" /\ mn.failed => mn.retval # 0
    /\ pc = "done" /\ made.over /\ ~made.clean => ret # 0

\* C2: when namedev_name_device fails, udev_add_device returns a failure and
\* has made no file system change, no rename and no persistence record.
C2_NamingFailureFails ==
    pc = "done" /\ NamingFailed =>
        /\ ret # 0
        /\ ~Mutated
        /\ ~Did("db_add")

\* C3: for a type other than block, char and network udev_add_device fails
\* at once, with no call, no system call and the descriptor as it was.
C3_UnknownTypeFails ==
    pc = "done" /\ udev.type \notin {"b", "c", "n"} =>
        /\ ret # 0
        /\ trace = << >>
        /\ udev = FreshDevice(udev.type, udev.test_run)

\* C4: with test_run set no mutating system call is made, the call returns
\* success, and devname is what a real run writes (the primary path of a
\* named block or char device, the new name of a renamed interface).
C4_TestRunNoMutation ==
    udev.test_run =>
        /\ ~Mutated
        /\ pc = "done" => ret = 0
        /\ pc = "done" /\ DidOk("namedev") /\ udev.type \in NodeTypes =>
               udev.devname = udev_root \o <<"/">> \o udev.name
        /\ pc = "done" /\ DidOk("namedev") /\ udev.type = "n"
             /\ udev.name # udev.kernel_name => udev.devname = udev.name

\* C5: a second make_node in a row for the same path with the same major,
\* minor, mode, uid and gid makes no unlink and no mknod (the inode is the
\* one the first run left), and the node's mode and ownership are those the
\* first run left.
C5_TwiceIdempotent ==
    pc = "mn_exit" /\ mn.role = "primary" /\ made_before.over
      /\ made_before.clean /\ made_before.req = mn.req =>
        /\ ~DidOn("unlink", mn.req.file)
        /\ ~DidOn("mknod", mn.req.file)
        /\ EntryAt(fs, mn.req.file).ino = made_before.node.ino
        /\ EntryAt(fs, mn.req.file).perm = made_before.node.perm
        /\ EntryAt(fs, mn.req.file).uid = made_before.node.uid
        /\ EntryAt(fs, mn.req.file).gid = made_before.node.gid

\* C5's case: the second run over a node the first run created and chowned
C5_Witness ==
    /\ pc = "mn_exit" /\ mn.role = "primary" /\ calls = 2
    /\ made_before.over /\ made_before.clean /\ made_before.req = mn.req
    /\ made_before.node.ino >= 2
    /\ DidOn("chown", mn.req.file)
    /\ ~mn.failed

\* C6: a successful make_node ends with a node of the requested type and
\* the requested device number at the path (an entry of another type or
\* number is unlinked and made anew).
C6_RequestedNodeAtPath ==
    pc = "mn_exit" /\ mn.retval = 0 =>
        /\ EntryAt(fs, mn.req.file).kind = mn.req.mode.fmt
        /\ EntryAt(fs, mn.req.file).major = mn.req.major
        /\ EntryAt(fs, mn.req.file).minor = mn.req.minor

\* C7: after every successful make_node, of a created or a preserved node,
\* the node has the requested permission bits, owner and group, root
\* included.
C7_PermsAlwaysApplied ==
    pc = "mn_exit" /\ mn.retval = 0 =>
        /\ EntryAt(fs, mn.req.file).perm = mn.req.mode.perm
        /\ EntryAt(fs, mn.req.file).uid = mn.req.uid
        /\ EntryAt(fs, mn.req.file).gid = mn.req.gid

\* C8: for every name and symlink token the relative target is not
\* absolute and, resolved from the link's directory, denotes root/name.
C8_RelativeLinkDenotesNode ==
    pc = "linked" =>
        /\ ~IsAbsolute(cn.linktarget)
        /\ Denotes(cn.filename, cn.linktarget)
             = Segments(udev_root \o <<"/">> \o udev.name)

\* The same for names and tokens without an empty segment, which holds.
RelativeLinkOfWellFormed ==
    pc = "linked" /\ WellFormed(udev.name) /\ WellFormed(cn.linkname) =>
        /\ ~IsAbsolute(cn.linktarget)
        /\ Denotes(cn.filename, cn.linktarget)
             = Segments(udev_root \o <<"/">> \o udev.name)

\* C9: get_major_minor succeeds, with major and minor written, only for a
\* "dev" text that is "%u:%u"; for a missing attribute or any other text it
\* fails and leaves major and minor as they were.
C9_ParseOrUntouched ==
    udev.type \in NodeTypes /\ pc # "start" =>
        IF DevResolves
        THEN udev.major = 8 /\ udev.minor = 0 /\ ~(pc = "done" /\ trace = << >>)
        ELSE pc = "done" /\ trace = << >> /\ udev.major = 0 /\ udev.minor = 0

\* C10: a block or char device whose major/minor resolution fails: the call
\* returns 0 with no collaborator called (naming, selinux init and restore,
\* persistence), no system call made, and devname unchanged.
C10_ResolutionMissNoOp ==
    udev.type \in NodeTypes /\ ~DevResolves =>
        /\ pc \in {"start", "done"}
        /\ trace = << >>
        /\ fs = RootOnly
        /\ db = << >>
        /\ udev.devname = << >>
        /\ pc = "done" => ret = 0

\* C10's case: the call has returned after a text of which only the first
\* number parses
C10_Witness ==
    /\ pc = "done" /\ udev.type = "b"
    /\ class_dev = [null |-> FALSE, value |-> <<"8", ":", "x">>]

\* the network branch: the call named a network device
NetNamed == udev.type = "n" /\ DidOk("namedev")
\* rename_net_if returned 0: nothing to do in test mode, else the ioctl did it
RenameOk == udev.test_run \/ DidOk("ioctl")
\* the kernel's devpath with its trailing segment replaced by name
DevpathAs(name) == <<"/", "c", "/">> \o name

\* C11: a network device whose resolved name is kernel_name: no rename (no
\* socket, no ioctl), devpath unchanged, and devname is kernel_name on return.
C11_SameNameNoRename ==
    NetNamed /\ udev.name = udev.kernel_name =>
        /\ ~Did("rename_net_if") /\ ~Did("socket") /\ ~Did("ioctl")
        /\ udev.devpath = KernelDevpath
        /\ environ = KernelDevpath
        /\ pc = "done" => udev.devname = udev.kernel_name

\* C12: a network device whose resolved name differs from kernel_name: the
\* rename is invoked exactly once; when it succeeds devpath's trailing
\* segment is the resolved name and devname is the resolved name; when it
\* fails the call returns a failure and devpath and devname are as they were.
C12_RenameOnceAllOrNothing ==
    pc = "done" /\ NetNamed /\ udev.name # udev.kernel_name =>
        /\ CountOf("rename_net_if") = 1
        /\ CountOf("socket") <= 1 /\ CountOf("ioctl") <= 1
        /\ IF RenameOk
           THEN /\ ret = 0
                /\ udev.devpath = DevpathAs(udev.name)
                /\ environ = DevpathAs(udev.name)
                /\ udev.devname = udev.name
           ELSE /\ ret # 0
                /\ udev.devpath = KernelDevpath
                /\ udev.devname = << >>

\* C12's case: the ioctl failed and the call has returned
C12_Witness ==
    /\ pc = "done" /\ NetNamed /\ udev.name # udev.kernel_name
    /\ Did("ioctl") /\ ~DidOk("ioctl")
    /\ calls = 1

\* C12's other case: the interface is renamed
C12_WitnessRenamed ==
    /\ pc = "done" /\ NetNamed /\ ifname = udev.name /\ ifname # KernelName
    /\ DidOk("ioctl")

\* the paths of the running call
Primary == PrimaryPath(udev)
PartPath(i) == Primary \o Decimal(i)
PartPaths == {PartPath(i) : i \in 1..udev.partitions}
SymPaths ==
    {udev_root \o <<"/">> \o strparts(udev.symlink)[k] :
        k \in 1..Len(strparts(udev.symlink))}
\* the make_node calls that have returned, for a path
MadeAt(path) ==
    {j \in 1..Len(trace) : trace[j].op = "make_node" /\ trace[j].path = path}
EventsOn(path) == {j \in 1..Len(trace) : trace[j].path = path}

\* C13: with partitions = N > 0, not in test mode, create_node makes exactly
\* the N nodes root/name + i with device number (major, minor + i), i in
\* 1..N, after the primary node, and nothing touches the primary node after
\* its own make_node; with N = 0 no partition path is touched.
C13_PartitionNodes ==
    pc = "db_add" /\ ~udev.test_run =>
        /\ \A i \in 1..udev.partitions :
              /\ Cardinality(MadeAt(PartPath(i))) = 1
              /\ \A j \in MadeAt(PartPath(i)) : trace[j].ok =>
                    /\ EntryAt(fs, PartPath(i)).kind = udev.mode.fmt
                    /\ EntryAt(fs, PartPath(i)).major = udev.major
                    /\ EntryAt(fs, PartPath(i)).minor = udev.minor + i
              /\ \A j \in EventsOn(PartPath(i)), k \in MadeAt(Primary) : k < j
        /\ \A j \in 1..Len(trace) :
              trace[j].op = "make_node" => trace[j].path \in {Primary} \cup PartPaths
        /\ Cardinality(MadeAt(Primary)) = 1
        /\ \A k \in MadeAt(Primary), j \in EventsOn(Primary) : j <= k
        /\ EntryAt(fs, Primary) = made.node
        /\ \A i \in (udev.partitions + 1)..(MaxPart + 1) :
              ~Exists(fs, PartPath(i)) /\ EventsOn(PartPath(i)) = {}

\* C13's case: two partition nodes made next to a primary node with minor 0
C13_Witness ==
    /\ pc = "db_add" /\ ~udev.test_run /\ udev.partitions = 2 /\ calls = 1
    /\ EntryAt(fs, Primary).minor = 0
    /\ EntryAt(fs, PartPath(1)).minor = 1
    /\ EntryAt(fs, PartPath(2)).minor = 2

\* a partition node or a symlink whose making failed
ItemFailed ==
    \E j \in 1..Len(trace) :
        /\ ~trace[j].ok
        /\ trace[j].op \in {"mknod", "chmod", "chown", "mkdir", "symlink"}
        /\ trace[j].path \in PartPaths \cup SymPaths

\* C14: when the making of a partition node or of a symlink fails, every
\* partition and every symlink token is still attempted, the device is
\* recorded, devname is written and udev_add_device returns success.
C14_ItemFailureNonFatal ==
    pc = "done" /\ udev.type \in NodeTypes /\ ItemFailed =>
        /\ \A i \in 1..udev.partitions : MadeAt(PartPath(i)) # {}
        /\ \A q \in SymPaths : DidOn("symlink", q)
        /\ Did("db_add")
        /\ udev.devname = Primary
        /\ ret = 0

\* C14's case: the first partition's mknod failed, a later partition and the
\* symlinks follow
C14_Witness ==
    /\ pc = "done" /\ udev.partitions = 2 /\ udev.symlink # << >>
    /\ \E j \in 1..Len(trace) :
          trace[j].op = "mknod" /\ trace[j].path = PartPath(1) /\ ~trace[j].ok
    /\ Exists(fs, PartPath(2))

\* C14's other case: the first symlink failed
C14_WitnessSymlink ==
    /\ pc = "done" /\ udev.partitions > 0
    /\ \E j \in 1..Len(trace) : trace[j].op = "symlink" /\ ~trace[j].ok
    /\ \E j \in 1..Len(trace) : trace[j].op = "symlink" /\ trace[j].ok

\* C15: once selinux_init has been called, selinux_restore is called exactly
\* once before the call returns, on every exit path, and nothing of the call
\* happens after the restore.
C15_RestoreOnceAndLast ==
    Did("selinux_init") =>
        /\ pc = "done" => CountOf("selinux_restore") = 1
        /\ \A j \in 1..Len(trace) :
              trace[j].op = "selinux_restore" => j = Len(trace) /\ pc = "done"

\* C15's case: the exit after a failed rename
C15_Witness ==
    /\ pc = "done" /\ Did("selinux_init") /\ Did("socket") /\ ~DidOk("socket")
    /\ ret # 0

\* C15's other cases: the exit after a failed primary node, and after success
C15_WitnessPrimary ==
    /\ pc = "done" /\ Did("selinux_init") /\ ret # 0
    /\ \E j \in MadeAt(Primary) : ~trace[j].ok

C15_WitnessSuccess ==
    pc = "done" /\ Did("selinux_init") /\ Did("db_add") /\ ret = 0

\* make_node returned a failure for the primary node
PrimaryFailed == \E j \in MadeAt(Primary) : ~trace[j].ok

\* the place of an event in the order primary node, partition nodes,
\* symlinks, persistence record
Phase(e) ==
    CASE e.op \in {"namedev", "selinux_init"} -> 0
      [] e.op = "db_add" -> 4
      [] e.op = "selinux_restore" -> 5
      [] e.path = Primary -> 1
      [] e.path \in PartPaths -> 2
      [] e.path \in SymPaths -> 3
      [] OTHER -> 6

\* C17: when make_node fails for the primary node, no partition node and no
\* symlink is attempted, the device is not recorded, devname is not written
\* and udev_add_device returns a failure; the record and devname come only
\* after a create_node that succeeded, in the order primary node, partition
\* nodes, symlinks, record, devname.
C17_PrimaryFailureFatal ==
    udev.type \in NodeTypes =>
        /\ PrimaryFailed =>
              /\ \A j \in 1..Len(trace) : trace[j].path \in {<< >>, Primary}
              /\ ~Did("db_add")
              /\ udev.devname = << >>
              /\ pc \in {"exit", "done"}
              /\ pc = "done" => ret # 0
        /\ udev.devname # << >> => Did("db_add")
        /\ Did("db_add") =>
              /\ retval = 0
              /\ udev.test_run \/ \E j \in MadeAt(Primary) : trace[j].ok
        /\ \A j, k \in 1..Len(trace) : j < k => Phase(trace[j]) <= Phase(trace[k])
        /\ \A j \in 1..Len(trace) : Phase(trace[j]) # 6

\* C17's case: the primary node's mknod failed for a device with partitions
\* and symlinks
C17_Witness ==
    /\ pc = "done" /\ PrimaryFailed /\ udev.partitions > 0 /\ udev.symlink # << >>
    /\ ret # 0

\* an owner that is neither a number nor a name of the passwd file
UnknownOwner ==
    /\ udev.owner # << >>
    /\ strtoul(udev.owner).end <= Len(udev.owner)
    /\ get_id_by_name(udev.owner, PW_FILE) = ID_NONE
UnknownGroup ==
    /\ udev.group # << >>
    /\ strtoul(udev.group).end <= Len(udev.group)
    /\ get_id_by_name(udev.group, GR_FILE) = ID_NONE

\* C18: getpwnam and getgrnam return NULL whenever get_id_by_name yields its
\* not-found value, so create_node keeps uid and gid 0 for an unknown owner
\* or group name.
C18_SentinelIsNull ==
    cn.filename # << >> =>
        /\ UnknownOwner => getpwnam(udev.owner).null /\ cn.uid = 0
        /\ UnknownGroup => getgrnam(udev.group).null /\ cn.gid = 0

\* C20: selinux_restore is never called in a call in which selinux_init was
\* not called before it.
C20_InitBeforeRestore ==
    \A j \in 1..Len(trace) :
        trace[j].op = "selinux_restore" =>
            \E k \in 1..(j - 1) : trace[k].op = "selinux_init"

\* the two calls of SpecPar: both returned, and the paths of their nodes
AllDone == \A p \in Procs : pc[p] = "done"
NodePath(p) == PrimaryPath(rules[p])
Unrelated == NodePath(1) # NodePath(2)
SameDevice == rules[1] = rules[2] /\ class_dev[1] = class_dev[2]
\* p takes no part in the step
Idle(p) ==
    /\ pc'[p] = pc[p] /\ cn'[p] = cn[p] /\ mn'[p] = mn[p]
    /\ trace'[p] = trace[p]

\* a file system with the inode numbers handed out by mknod made one: which
\* of two new nodes gets which number depends on who comes first
NewInodesAsOne(f) ==
    [q \in DOMAIN f |-> [f[q] EXCEPT !.ino = IF @ >= 3 THEN 3 ELSE @]]
\* the file system after the call of p and then the call of the other one,
\* each run alone
SequentialFs(p) ==
    LET first  == create_node(ParInitFs(rules, made_before), 3, udev[p])
        second == create_node(first.fs, first.ino, udev[Other(p)])
    IN  second.fs

\* C16: two calls at once for unrelated devices with different node paths:
\* no step of one unlinks, replaces or changes the mode or owner of the
\* other's primary node, and the file system at the end is the one of the
\* two calls run one after the other, in either order.
C16_UnrelatedIndependent ==
    /\ [](Unrelated /\ AllDone =>
            \A p \in Procs :
                NewInodesAsOne(fs) = NewInodesAsOne(SequentialFs(p)))
    /\ [][Unrelated =>
            \A p \in Procs :
                Idle(p) => EntryAt(fs', NodePath(p)) = EntryAt(fs, NodePath(p))]_vars

\* C16's case: both calls are over, under one directory that the first made,
\* one having replaced a stale node and the other a regular file
C16_Witness ==
    /\ Unrelated /\ AllDone
    /\ NodePath(1) = <<"/", "u", "/", "d", "/", "a">>
    /\ made_before[1].node.kind = "blk" /\ made_before[1].node.minor = 1
    /\ made_before[2].node.kind = "reg"
    /\ EntryAt(fs, NodePath(1)).ino > EntryAt(fs, NodePath(2)).ino
    /\ EntryAt(fs, NodePath(2)).ino >= 3

\* the node of the duplicate events is at its path
GoodNodeAt(f) ==
    /\ Exists(f, NodePath(1))
    /\ preserve_node(f[NodePath(1)], [major |-> 8, minor |-> 0])

\* C19: two racing calls for the same device: a node that is at the path
\* with the requested device number is never unlinked by either call, and
\* both calls return success.
C19_RacingDuplicates ==
    /\ [](SameDevice /\ AllDone => ret[1] = 0 /\ ret[2] = 0)
    /\ [][SameDevice /\ GoodNodeAt(fs) =>
            GoodNodeAt(fs') /\ fs'[NodePath(1)].ino = fs[NodePath(1)].ino]_vars

====
